---- MODULE Spec2Model ----
(***************************************************************************)
(* FeedMe (src/feedme.py): a Discord cog that polls web feeds, posts new   *)
(* or changed entries to the channel a feed is bound to, and remembers     *)
(* what it posted in the entries table.  The model covers the feeds table  *)
(* (Feed.commit / Feed.delete / Feed.load_all), the entries table          *)
(* (get_entries / update_entry), the poll coroutine with one action per    *)
(* awaited operation, and the owner commands start / stop / new / remove   *)
(* together with the done-callback returned by _cleanup_poll.              *)
(*                                                                         *)
(* asyncio is a single cooperative scheduler: a coroutine runs from one    *)
(* await to the next without interruption, so every action below is one    *)
(* such run.  A done-callback is queued when its task finishes and runs    *)
(* later, so other handlers can run between the two.                       *)
(***************************************************************************)
EXTENDS Integers, Sequences, FiniteSets, TLC

\* ------------------------------------------------------------------ bounds
\* A run is bounded by what it may still do: asyncio tasks it may create
\* (start and the restarts), new / remove commands it may issue and remote
\* edits that may happen.  Each specification has its own allowance.
MaxEntries == 2   \* entries in one feed document
MaxTasks   == 1   \* Spec: tasks
MaxCmds    == 1   \* Spec: new / remove commands
MaxEdits   == 1   \* Spec: remote edits
SupTasks   == 3   \* SpecSup: tasks
SupCmds    == 1   \* SpecSup: new / remove commands
RegTasks   == 1   \* SpecReg: tasks
RegCmds    == 3   \* SpecReg: new / remove commands
PollTasks  == 1   \* SpecPoll: tasks
PollCmds   == 1   \* SpecPoll: new / remove commands

Channels == {1, 2}
Guilds   == {7}
Urls     == {"u"}
Titles   == {"A", "B"}
EntryIds == {1, 2}
Markers  == {"t0", "t1"}

\* ------------------------------------------------------------ data shapes
SUCCESS_EMOJI == "\\u2705"

Entry  == [id : EntryIds, updated : Markers]
SeqsUpTo(S, n) == UNION {[1..k -> S] : k \in 0..n}
\* what feedparser.parse gives for a fetched text: feed.title and entries,
\* newest first
Docs   == [title : Titles, entries : SeqsUpTo(Entry, MaxEntries)]

Feed(name, channel_id, guild_id, url) ==
    [name |-> name, channel_id |-> channel_id, guild_id |-> guild_id, url |-> url]

Row(feed_name, channel_id, entry_id, updated) ==
    [feed_name |-> feed_name, channel_id |-> channel_id,
     entry_id |-> entry_id, updated |-> updated]

NoDoc  == [title |-> "", entries |-> << >>]
NoReply == [cmd |-> "", msg |-> ""]

VARIABLES
    feeds,     \* the feeds table, rows in insertion order
    entries,   \* the entries table, a set of rows
    web,       \* the document each URL currently serves
    poller,    \* FeedMe.poller: 0 for None, else an index into tasks
    tasks,     \* every asyncio task created for poll(), in creation order
    reply,     \* what the step just taken answered to its command, if any
    lastDone,  \* per channel: the document of the check_entries call that
               \* completed last with no other call on the channel since
    left       \* what the run may still do: [tasks, cmds, edits]

vars == <<feeds, entries, web, poller, tasks, reply, lastDone, left>>

\* ------------------------------------------------------------- the tables
\* The schema script (database/init_database.sql) declares feeds.channel_id
\* unique and (feed_name, channel_id, entry_id) the key of entries.
FeedKey(f)  == f.channel_id
EntryKey(r) == <<r.feed_name, r.channel_id, r.entry_id>>

Range(s) == {s[i] : i \in 1..Len(s)}

\* INSERT INTO feeds raises sqlite3.IntegrityError when the key is taken
IntegrityError(table, f) == \E g \in Range(table) : FeedKey(g) = FeedKey(f)

\* an INSERT OR REPLACE in place of the INSERT
commit_or_replace(table, f) ==
    [raised |-> FALSE,
     table  |-> Append(SelectSeq(table, LAMBDA g : FeedKey(g) # FeedKey(f)), f)]

\* Feed.commit: INSERT INTO feeds ...; commit.  Gives whether it raised and
\* the table afterwards
commit(table, f) ==
    [raised |-> IntegrityError(table, f),
     table  |-> IF IntegrityError(table, f) THEN table ELSE Append(table, f)]

\* a DELETE that lost its WHERE clause
delete_all(table, channel_id) == << >>

\* Feed.delete: DELETE FROM feeds WHERE (channel_id = ?)
delete(table, channel_id) ==
    SelectSeq(table, LAMBDA f : f.channel_id # channel_id)

\* Feed.load_all: SELECT * FROM feeds
load_all(table) == table

\* a get_entries that selects by feed name alone
get_entries_any_channel(table, feed_name, channel_id) ==
    {r \in table : r.feed_name = feed_name}

\* FeedMe.get_entries: SELECT * FROM entries WHERE feed_name = ? AND channel_id = ?
get_entries(table, feed_name, channel_id) ==
    {r \in table : r.feed_name = feed_name /\ r.channel_id = channel_id}

\* an update_entry whose write is never committed
update_entry_uncommitted(table, entry_id, feed_name, channel_id, updated) == table

\* an update_entry that clears the rows of the feed and channel before it
\* stores the new one
update_entry_fresh(table, entry_id, feed_name, channel_id, updated) ==
    {r \in table : r.feed_name # feed_name \/ r.channel_id # channel_id}
        \cup {Row(feed_name, channel_id, entry_id, updated)}

\* FeedMe.update_entry: REPLACE INTO entries(...) VALUES (...); commit
update_entry(table, entry_id, feed_name, channel_id, updated) ==
    LET new_row == Row(feed_name, channel_id, entry_id, updated)
    IN  {r \in table : EntryKey(r) # EntryKey(new_row)} \cup {new_row}

\* ------------------------------------------------------------ check_entries
\* a loop over feed.entries as they come, newest first
Visited_newest_first(doc, k) == doc.entries[k]

\* reversed(feed.entries): the k-th entry the loop visits
Visited(doc, k) == doc.entries[Len(doc.entries) + 1 - k]

\* the inner for/else: some old_entry has this id and this updated value
Seen(updates, entry) ==
    \E old_entry \in updates :
        old_entry.entry_id = entry.id /\ old_entry.updated = entry.updated

\* the loop runs on without awaiting until it meets an entry that is not in
\* updates: the position of the first such entry at or after k, or one past
\* the end
NextNew(doc, updates, k) ==
    LET cand == {j \in k..Len(doc.entries) : ~Seen(updates, Visited(doc, j))}
    IN  IF cand = {} THEN Len(doc.entries) + 1
        ELSE CHOOSE j \in cand : \A i \in cand : j <= i

\* ------------------------------------------------------------------ tasks
\* state: pending | cancelled | failed      (asyncio.Task)
\* must_cancel: cancel() was requested and has not been delivered yet
\* cb: none | armed | scheduled | ran       (the done-callback of start())
\* pc: where poll() is suspended: load | fetch | post | write | checked | sleep
\* loaded, fi: poll's `feeds` and the position of bot_feed in it
\* feed, updates, ei: check_entries' parsed feed, its get_entries result and
\*                    the position of entry in reversed(feed.entries)
\* out: the post_update calls of the running check_entries that returned,
\*      each with whether channel.send was reached
\* prev: lastDone of the channel when the running check_entries began
Idle == [pc |-> "", loaded |-> << >>, fi |-> 0, feed |-> NoDoc,
         updates |-> {}, ei |-> 0, out |-> << >>, prev |-> NoDoc]

Locals(pc, loaded, fi) == [Idle EXCEPT !.pc = pc, !.loaded = loaded, !.fi = fi]

\* asyncio.create_task(self.poll()), with or without add_done_callback
create_task(cb) ==
    [state |-> "pending", must_cancel |-> FALSE, cb |-> cb] @@ Locals("load", << >>, 0)

TaskIds == 1..Len(tasks)
Pending(t)  == tasks[t].state = "pending"
Runnable(t) == Pending(t) /\ ~tasks[t].must_cancel
Live        == {t \in TaskIds : Pending(t)}
At(t, pc)   == Runnable(t) /\ tasks[t].pc = pc
bot_feed(t) == tasks[t].loaded[tasks[t].fi]

\* a finished task queues its done-callback, if it has one
Finished(task, how) ==
    [state |-> how, must_cancel |-> FALSE,
     cb |-> IF task.cb = "armed" THEN "scheduled" ELSE task.cb] @@ Idle

Quiet == reply' = NoReply

\* ------------------------------------------------------------------- Init
\* the example feed of the specification: E2@t1 above E1@t0, newest first
Daily == [title |-> "A",
          entries |-> <<[id |-> 2, updated |-> "t1"], [id |-> 1, updated |-> "t0"]>>]

Allowance(t, c, e) == [tasks |-> t, cmds |-> c, edits |-> e]

\* FeedMe.__init__: poller = None, and _init_database on a fresh database;
\* the remote documents are drawn from docs
InitOver(docs, allowance) ==
    /\ feeds = << >>
    /\ entries = {}
    /\ web \in [Urls -> docs]
    /\ poller = 0
    /\ tasks = << >>
    /\ reply = NoReply
    /\ lastDone = [c \in Channels |-> NoDoc]
    /\ left = allowance

\* ------------------------------------------------------------- poll, by await
SetTask(t, task) == tasks' = [tasks EXCEPT ![t] = task]
Step(t, locals)  ==
    SetTask(t, [state |-> "pending", must_cancel |-> FALSE, cb |-> tasks[t].cb] @@ locals)

\* poll: feeds = await Feed.load_all(); an empty list goes straight to sleep
poll_load(t) ==
    /\ At(t, "load")
    /\ LET loaded == load_all(feeds)
       IN  Step(t, IF loaded = << >> THEN Locals("sleep", << >>, 0)
                   ELSE Locals("fetch", loaded, 1))
    /\ Quiet
    /\ UNCHANGED <<feeds, entries, web, poller, lastDone, left>>

\* fetch: what session.get and the status check can come to
FetchResults == {"ok", "bad_status", "invalid_url", "timeout", "missing_session"}

\* poll: feed = feedparser.parse(await self.fetch(bot_feed.url)), then
\* check_entries up to its first await after get_entries: the ledger rows
\* are read once, under the parsed document's title, and the loop skips
\* the entries it finds there
poll_fetch(t) ==
    /\ At(t, "fetch")
    /\ LET bf == bot_feed(t)
           feed == web[bf.url]
           updates == get_entries(entries, feed.title, bf.channel_id)
           ei == NextNew(feed, updates, 1)
       IN  /\ Step(t, [tasks[t] EXCEPT
                         !.pc = IF ei <= Len(feed.entries) THEN "post" ELSE "checked",
                         !.feed = feed, !.updates = updates, !.ei = ei,
                         !.out = << >>, !.prev = lastDone[bf.channel_id]])
           /\ lastDone' = [lastDone EXCEPT ![bf.channel_id] = NoDoc]
    /\ Quiet
    /\ UNCHANGED <<feeds, entries, web, poller, left>>

\* poll: fetch raises (MissingSessionError, BadResponseError, InvalidURL,
\* TimeoutError); nothing in poll catches it, so the task ends with it
poll_fetch_raises(t, r) ==
    /\ At(t, "fetch")
    /\ r \in FetchResults \ {"ok"}
    /\ SetTask(t, Finished(tasks[t], "failed"))
    /\ Quiet
    /\ UNCHANGED <<feeds, entries, web, poller, lastDone, left>>

\* post_update: what fetch_channel and channel.send can come to
PostResults == {"sent", "not_text", "raises"}

\* a post_update that raises for a channel that is no TextChannel instead of
\* returning
post_update_raising(t, r) ==
    /\ At(t, "post")
    /\ r \in PostResults
    /\ IF r # "sent"
       THEN SetTask(t, Finished(tasks[t], "failed"))
       ELSE Step(t, [tasks[t] EXCEPT
                       !.pc = "write",
                       !.out = Append(@, [entry |-> Visited(tasks[t].feed, tasks[t].ei),
                                          sent  |-> TRUE])])
    /\ Quiet
    /\ UNCHANGED <<feeds, entries, web, poller, lastDone, left>>

\* a check_entries that stores the row before it posts: the row is there
\* when post_update returns
post_update_written_first(t, r) ==
    /\ At(t, "post")
    /\ r \in PostResults
    /\ LET entry == Visited(tasks[t].feed, tasks[t].ei)
       IN  /\ entries' = update_entry(entries, entry.id, tasks[t].feed.title,
                                      bot_feed(t).channel_id, entry.updated)
           /\ IF r = "raises"
              THEN SetTask(t, Finished(tasks[t], "failed"))
              ELSE Step(t, [tasks[t] EXCEPT
                              !.pc = "write",
                              !.out = Append(@, [entry |-> entry, sent |-> (r = "sent")])])
    /\ Quiet
    /\ UNCHANGED <<feeds, web, poller, lastDone, left>>

\* check_entries: await self.post_update(entry, channel_id).  A channel that
\* is no TextChannel prints an error and returns; an exception of
\* fetch_channel or send ends the task
post_update(t, r) ==
    /\ At(t, "post")
    /\ r \in PostResults
    /\ IF r = "raises"
       THEN SetTask(t, Finished(tasks[t], "failed"))
       ELSE Step(t, [tasks[t] EXCEPT
                       !.pc = "write",
                       !.out = Append(@, [entry |-> Visited(tasks[t].feed, tasks[t].ei),
                                          sent  |-> (r = "sent")])])
    /\ Quiet
    /\ UNCHANGED <<feeds, entries, web, poller, lastDone, left>>

\* check_entries: await self.update_entry(entry.id, feed.feed.title,
\* channel_id, entry.updated), then on to the next entry that is not in
\* updates
poll_update_entry(t) ==
    /\ At(t, "write")
    /\ LET task == tasks[t]
           entry == Visited(task.feed, task.ei)
           ei == NextNew(task.feed, task.updates, task.ei + 1)
       IN  /\ entries' = update_entry(entries, entry.id, task.feed.title,
                                      bot_feed(t).channel_id, entry.updated)
           /\ Step(t, [task EXCEPT
                         !.pc = IF ei <= Len(task.feed.entries) THEN "post" ELSE "checked",
                         !.ei = ei])
    /\ Quiet
    /\ UNCHANGED <<feeds, web, poller, lastDone, left>>

\* a poll that loads the feeds once, before its loop: after the last
\* bot_feed it starts over on the list it has
poll_next_cached(t) ==
    /\ At(t, "checked")
    /\ LET task == tasks[t]
       IN  /\ Step(t, Locals("fetch", task.loaded,
                             IF task.fi < Len(task.loaded) THEN task.fi + 1 ELSE 1))
           /\ lastDone' = [lastDone EXCEPT ![bot_feed(t).channel_id] = task.feed]
    /\ Quiet
    /\ UNCHANGED <<feeds, entries, web, poller, left>>

\* check_entries returns: poll goes to the next bot_feed, or to sleep
poll_next(t) ==
    /\ At(t, "checked")
    /\ LET task == tasks[t]
       IN  /\ Step(t, IF task.fi < Len(task.loaded)
                      THEN Locals("fetch", task.loaded, task.fi + 1)
                      ELSE Locals("sleep", << >>, 0))
           /\ lastDone' = [lastDone EXCEPT ![bot_feed(t).channel_id] = task.feed]
    /\ Quiet
    /\ UNCHANGED <<feeds, entries, web, poller, left>>

\* poll: await asyncio.sleep(Interval), then round the while loop
poll_sleep(t) ==
    /\ At(t, "sleep")
    /\ Step(t, Locals("load", << >>, 0))
    /\ Quiet
    /\ UNCHANGED <<feeds, entries, web, poller, lastDone, left>>

\* a requested cancel is delivered at the await the task is suspended in:
\* CancelledError leaves poll and the task ends cancelled
poll_cancelled(t) ==
    /\ Pending(t) /\ tasks[t].must_cancel
    /\ SetTask(t, Finished(tasks[t], "cancelled"))
    /\ Quiet
    /\ UNCHANGED <<feeds, entries, web, poller, lastDone, left>>

\* ------------------------------------------------------------ the commands
Answer(cmd, msg) == reply' = [cmd |-> cmd, msg |-> msg]

\* a start that takes a requested cancel for a finished one
start_allowed_on_request ==
    poller = 0 \/ tasks[poller].state = "cancelled" \/ tasks[poller].must_cancel

\* start: `if self.poller is None or self.poller.cancelled()`
start_allowed == poller = 0 \/ tasks[poller].state = "cancelled"

\* start: create the task, attach the callback of _cleanup_poll, react
start ==
    /\ IF start_allowed
       THEN /\ left.tasks > 0
            /\ left' = [left EXCEPT !.tasks = @ - 1]
            /\ tasks' = Append(tasks, create_task("armed"))
            /\ poller' = Len(tasks) + 1
            /\ Answer("start", SUCCESS_EMOJI)
       ELSE /\ Answer("start", "Already running!")
            /\ UNCHANGED <<tasks, poller, left>>
    /\ UNCHANGED <<feeds, entries, web, lastDone>>

\* Task.cancel(): False on a task that is done, else the request is noted
cancel(task) ==
    IF task.state = "pending" THEN [task EXCEPT !.must_cancel = TRUE] ELSE task

\* stop: `if self.poller is not None`: cancel it and react
stop ==
    /\ IF poller # 0
       THEN /\ SetTask(poller, cancel(tasks[poller]))
            /\ Answer("stop", SUCCESS_EMOJI)
       ELSE /\ Answer("stop", "Already stopped!")
            /\ UNCHANGED tasks
    /\ UNCHANGED <<feeds, entries, web, poller, lastDone, left>>

\* the callback a restarted task gets: cleanup creates it with none
restart_cb == "none"

\* cleanup(future): return on a cancelled future; on an exception create a
\* new task, point self.poller at it and raise the exception to the loop
cleanup(t) ==
    /\ tasks[t].cb = "scheduled"
    /\ IF tasks[t].state = "cancelled"
       THEN /\ SetTask(t, [tasks[t] EXCEPT !.cb = "ran"])
            /\ UNCHANGED <<poller, left>>
       ELSE /\ left.tasks > 0
            /\ left' = [left EXCEPT !.tasks = @ - 1]
            /\ tasks' = Append([tasks EXCEPT ![t].cb = "ran"], create_task(restart_cb))
            /\ poller' = Len(tasks) + 1
    /\ Quiet
    /\ UNCHANGED <<feeds, entries, web, lastDone>>

\* new: the message for each way fetch can fail
FetchError(r) ==
    CASE r = "bad_status"      -> "Error: Got status code!"
      [] r = "invalid_url"     -> "Error: Invalid URL!"
      [] r = "timeout"         -> "Error: Connection timed out!"
      [] r = "missing_session" -> "There was an error processing your request."

\* new: fetch and parse the url, refuse a feed that is not well-formed,
\* commit Feed(feed.feed.title, channel.id, ctx.guild.id, url) and answer
\* the IntegrityError of a channel that has a feed.  Whether the parsed
\* text is well-formed (feed.bozo) is an input.  The handler keeps nothing
\* but the title between its fetch and its commit, so the two are one step
new(channel, guild, url, r, bozo) ==
    /\ left.cmds > 0
    /\ left' = [left EXCEPT !.cmds = @ - 1]
    /\ LET feed == web[url]
           new_feed == Feed(feed.title, channel, guild, url)
       IN  IF r # "ok"
           THEN Answer("new", FetchError(r)) /\ UNCHANGED feeds
           ELSE IF bozo
           THEN Answer("new", "Feed is not well-formed.") /\ UNCHANGED feeds
           ELSE IF commit(feeds, new_feed).raised
           THEN Answer("new", "Channel already has a feed in it.") /\ UNCHANGED feeds
           ELSE Answer("new", SUCCESS_EMOJI) /\ feeds' = commit(feeds, new_feed).table
    /\ UNCHANGED <<entries, web, poller, tasks, lastDone>>

\* remove: await Feed.delete(channel.id); nothing is answered
remove(channel) ==
    /\ left.cmds > 0
    /\ left' = [left EXCEPT !.cmds = @ - 1]
    /\ feeds' = delete(feeds, channel)
    /\ Answer("remove", "")
    /\ UNCHANGED <<entries, web, poller, tasks, lastDone>>

\* ------------------------------------------------------------- the remote
Edited(url, doc) ==
    /\ left.edits > 0
    /\ left' = [left EXCEPT !.edits = @ - 1]
    /\ doc # web[url]
    /\ web' = [web EXCEPT ![url] = doc]
    /\ Quiet
    /\ UNCHANGED <<feeds, entries, poller, tasks, lastDone>>

\* the feed is renamed
retitle(url, title) == Edited(url, [web[url] EXCEPT !.title = title])

\* an entry is revised: same id, another updated value
revise(url, i, updated) ==
    /\ i \in 1..Len(web[url].entries)
    /\ Edited(url, [web[url] EXCEPT !.entries[i].updated = updated])

\* an entry is published on top; the document keeps its newest MaxEntries
publish(url, entry) ==
    LET all == <<entry>> \o web[url].entries
    IN  Edited(url, [web[url] EXCEPT
                       !.entries = SubSeq(all, 1, IF Len(all) > MaxEntries
                                                  THEN MaxEntries ELSE Len(all))])

\* ------------------------------------------------------------------- Next
\* every handler and every step of the bot
Program ==
    \/ start
    \/ stop
    \/ \E c \in Channels, g \in Guilds, u \in Urls, r \in FetchResults, b \in BOOLEAN :
          new(c, g, u, r, b)
    \/ \E c \in Channels : remove(c)
    \/ \E t \in TaskIds : poll_load(t)
    \/ \E t \in TaskIds : poll_fetch(t)
    \/ \E t \in TaskIds, r \in FetchResults : poll_fetch_raises(t, r)
    \/ \E t \in TaskIds, r \in PostResults : post_update(t, r)
    \/ \E t \in TaskIds : poll_update_entry(t)
    \/ \E t \in TaskIds : poll_next(t)
    \/ \E t \in TaskIds : poll_sleep(t)
    \/ \E t \in TaskIds : poll_cancelled(t)
    \/ \E t \in TaskIds : cleanup(t)

\* what the feeds' publishers do meanwhile
Remote ==
    \/ \E u \in Urls, title \in Titles : retitle(u, title)
    \/ \E u \in Urls, i \in 1..MaxEntries, m \in Markers : revise(u, i, m)
    \/ \E u \in Urls, e \in Entry : publish(u, e)

Next == Program \/ Remote

\* the bot while the remote documents change
Init == InitOver({Daily}, Allowance(MaxTasks, MaxCmds, MaxEdits))
Spec == Init /\ [][Next]_vars

\* supervision: many tasks, the documents standing still
InitSup == InitOver({Daily}, Allowance(SupTasks, SupCmds, 0))
SpecSup == InitSup /\ [][Program]_vars

\* the registry: many new / remove commands
InitReg == InitOver({Daily}, Allowance(RegTasks, RegCmds, 0))
SpecReg == InitReg /\ [][Program]_vars

\* polling: every document of the bounded shape.  With the documents
\* standing still a feed's name is its document's title, so one title
\* stands for all; ids and updated values are only ever compared for
\* equality, so the documents are taken up to renaming them: the entry on
\* top is id 1 at t0
PollDocs ==
    {d \in Docs : /\ d.title = "A"
                  /\ d.entries # << >> => d.entries[1] = [id |-> 1, updated |-> "t0"]}
InitPoll == InitOver(PollDocs, Allowance(PollTasks, PollCmds, 0))
SpecPoll == InitPoll /\ [][Program]_vars

\* ================================================================ claims
NoObserverQueued == \A t \in TaskIds : tasks[t].cb # "scheduled"

\* C1: at most one poll task is pending in any reachable state, and a
\* start issued while one is pending answers "Already running!" and
\* creates no task.
C1_OneExecution ==
    /\ [](Cardinality(Live) <= 1)
    /\ [][(reply'.cmd = "start" /\ Live # {})
            => (reply'.msg = "Already running!" /\ tasks' = tasks)]_vars

\* start was refused while the task created by a restart was pending
C1_Witness ==
    /\ reply = [cmd |-> "start", msg |-> "Already running!"]
    /\ Len(tasks) >= 2
    /\ Live = {Len(tasks)}
    /\ tasks[Len(tasks)].cb = "none"

\* C2: every task that ended with an exception and whose done-callback is
\* not waiting to run has been replaced by a newer task, whether start or
\* a restart created it.
C2_SelfHealing ==
    \A t \in TaskIds :
        (tasks[t].state = "failed" /\ tasks[t].cb # "scheduled") => t < Len(tasks)

\* C3: a start issued while no task is pending and no done-callback is
\* waiting creates a pending task with the done-callback attached and
\* answers with the success reaction.
C3_StartWhenNoneLive ==
    [][(reply'.cmd = "start" /\ Live = {} /\ NoObserverQueued)
         => /\ reply'.msg = SUCCESS_EMOJI
            /\ Len(tasks') = Len(tasks) + 1
            /\ tasks'[Len(tasks')].state = "pending"
            /\ tasks'[Len(tasks')].cb = "armed"]_vars

\* C4: a stop issued after the cancel of an earlier stop has been delivered
\* and its done-callback has run answers "Already stopped!".
C4_SecondStop ==
    [][(/\ reply'.cmd = "stop"
        /\ poller # 0
        /\ tasks[poller].state = "cancelled"
        /\ NoObserverQueued)
         => reply'.msg = "Already stopped!"]_vars

\* C5: once no done-callback is waiting to run, self.poller is None or
\* refers to a pending task.
C5_HandleCleared ==
    (poller # 0 /\ NoObserverQueued) => Pending(poller)

\* --------------------------------------------------- check_entries, observed
Reverse(s) == [i \in 1..Len(s) |-> s[Len(s) + 1 - i]]
Posted(task) == [i \in 1..Len(task.out) |-> task.out[i].entry]
AllSent(task) == \A i \in 1..Len(task.out) : task.out[i].sent
Checked(t) == tasks[t].pc = "checked"
\* the rows of the entries table the running check_entries reads and writes
RowsOf(t) == get_entries(entries, tasks[t].feed.title, bot_feed(t).channel_id)
\* the entry listed first (newest) among those with this id
Newest(doc, id) ==
    doc.entries[CHOOSE i \in 1..Len(doc.entries) :
                  /\ doc.entries[i].id = id
                  /\ \A j \in 1..(i - 1) : doc.entries[j].id # id]
DistinctIds(doc) ==
    \A i, j \in 1..Len(doc.entries) : doc.entries[i].id = doc.entries[j].id => i = j
\* no id is listed with two updated values
OneVersionPerId(doc) ==
    \A i, j \in 1..Len(doc.entries) :
        doc.entries[i].id = doc.entries[j].id
          => doc.entries[i].updated = doc.entries[j].updated

\* C6 as stated: a check_entries call that found no rows for its feed and
\* channel, and all of whose posts were sent, has posted the N entries
\* oldest first and leaves N rows, one per entry with its updated value.
C6_FirstPollAsStated ==
    \A t \in TaskIds :
        (Checked(t) /\ tasks[t].updates = {} /\ AllSent(tasks[t]))
          => /\ Posted(tasks[t]) = Reverse(tasks[t].feed.entries)
             /\ Cardinality(RowsOf(t)) = Len(tasks[t].feed.entries)
             /\ RowsOf(t) = {Row(tasks[t].feed.title, bot_feed(t).channel_id,
                                 e.id, e.updated) : e \in Range(tasks[t].feed.entries)}

\* C6: a check_entries call that found no rows for its feed and channel,
\* and all of whose posts were sent, has posted the N entries oldest first
\* and leaves one row per entry id, N rows when the ids differ, each with
\* the updated value of the newest entry of that id.
C6_FirstPoll ==
    \A t \in TaskIds :
        (Checked(t) /\ tasks[t].updates = {} /\ AllSent(tasks[t]))
          => /\ Posted(tasks[t]) = Reverse(tasks[t].feed.entries)
             /\ RowsOf(t) = {Row(tasks[t].feed.title, bot_feed(t).channel_id,
                                 e.id, Newest(tasks[t].feed, e.id).updated) :
                             e \in Range(tasks[t].feed.entries)}
             /\ (DistinctIds(tasks[t].feed)
                   => Cardinality(RowsOf(t)) = Len(tasks[t].feed.entries))

\* a first check of a document of MaxEntries entries with differing ids
\* has completed, every post sent
C6_Witness ==
    \E t \in TaskIds :
        /\ Checked(t) /\ tasks[t].updates = {} /\ AllSent(tasks[t])
        /\ Len(tasks[t].feed.entries) = MaxEntries
        /\ DistinctIds(tasks[t].feed)
        /\ Len(tasks[t].out) = MaxEntries

\* C7 as stated: a check_entries call on the document (title and entries)
\* the channel's last completed call ran on posts nothing and leaves the rows as it found
\* them, whatever the document.
C7_IdempotentAsStated ==
    \A t \in TaskIds :
        (Checked(t) /\ tasks[t].prev = tasks[t].feed)
          => (tasks[t].out = << >> /\ RowsOf(t) = tasks[t].updates)

\* C7: a check_entries call on the document (title and entries) the
\* channel's last completed call ran on posts nothing and leaves the rows as it found them, for
\* every document that lists no entry id with two updated values.
C7_Idempotent ==
    \A t \in TaskIds :
        (Checked(t) /\ tasks[t].prev = tasks[t].feed /\ OneVersionPerId(tasks[t].feed))
          => (tasks[t].out = << >> /\ RowsOf(t) = tasks[t].updates)

\* a second check of an unchanged document of MaxEntries entries has
\* completed
C7_Witness ==
    \E t \in TaskIds :
        /\ Checked(t) /\ tasks[t].prev = tasks[t].feed
        /\ OneVersionPerId(tasks[t].feed)
        /\ Len(tasks[t].feed.entries) = MaxEntries
        /\ tasks[t].updates # {}

\* C8: an entry handed to post_update has no row of its feed and channel
\* with its id and its updated value in the entries table.
C8_PostedIffUnseen ==
    \A t \in TaskIds :
        tasks[t].pc = "post" => ~Seen(RowsOf(t), Visited(tasks[t].feed, tasks[t].ei))

Taken(c) == \E f \in Range(feeds) : f.channel_id = c

\* C9: the feeds table never holds two feeds of one channel, and a new
\* whose fetch and parse succeed for a channel that has a feed answers
\* "Channel already has a feed in it." and leaves the table as it was.
C9_DestinationUnique ==
    /\ [](\A i, j \in 1..Len(feeds) : feeds[i].channel_id = feeds[j].channel_id => i = j)
    /\ [][\A c \in Channels, g \in Guilds, u \in Urls :
            (new(c, g, u, "ok", FALSE) /\ Taken(c))
              => (feeds' = feeds /\ reply'.msg = "Channel already has a feed in it.")]_vars

\* a second new for a channel was refused and the first feed is still there
C9_Witness ==
    /\ reply = [cmd |-> "new", msg |-> "Channel already has a feed in it."]
    /\ Len(feeds) = 1

\* C10: remove of a channel with no feed leaves the table as it was; after
\* any remove the channel has no feed, so a second remove changes nothing;
\* the feeds of the other channels stay, in their order.
C10_RemoveIdempotent ==
    [][\A c \in Channels :
         remove(c) =>
           /\ (~Taken(c) => feeds' = feeds)
           /\ \A f \in Range(feeds') : f.channel_id # c
           /\ feeds' = SelectSeq(feeds, LAMBDA f : f.channel_id # c)
           /\ reply'.msg = ""]_vars

\* a remove found nothing to delete while another channel kept its feed
C10_Witness ==
    /\ reply = [cmd |-> "remove", msg |-> ""]
    /\ Len(feeds) = 1
    /\ left.cmds = 0

\* the post_update calls of the running check_entries whose update_entry
\* has been awaited: all but the last while the task waits to write
Written(t) ==
    {i \in 1..Len(tasks[t].out) : i < Len(tasks[t].out) \/ tasks[t].pc # "write"}

\* C11: an entry whose post found a channel that is no text channel gets no
\* ledger row: every entry the running check_entries has written a row for
\* was sent to its channel.
C11_NoRecordWithoutPost ==
    \A t \in TaskIds : \A i \in Written(t) : tasks[t].out[i].sent

\* the entries of the document that are not in the rows, as the loop of
\* check_entries meets them
Unseen(doc, rows) == SelectSeq(Reverse(doc.entries), LAMBDA e : ~Seen(rows, e))

C13_FetchFailureEndsCycle ==
    [][\A t \in TaskIds : \A r \in FetchResults \ {"ok"} :
         poll_fetch_raises(t, r) =>
           /\ tasks'[t].state = "failed"
           /\ tasks'[t].loaded = << >>
           /\ entries' = entries
           /\ tasks'[t].cb = "scheduled"]_vars

\* the entry the task is at, and the row update_entry stores for it
Current(t) == Visited(tasks[t].feed, tasks[t].ei)
Record(t) ==
    Row(tasks[t].feed.title, bot_feed(t).channel_id, Current(t).id, Current(t).updated)

\* the entry the task is at was not met earlier in the same loop
FirstListing(t) ==
    \A k \in 1..(tasks[t].ei - 1) : Visited(tasks[t].feed, k) # Current(t)

\* C14: when a task waits in update_entry, post_update has returned for
\* that entry, the entry was not among the rows the check read, and (unless
\* the same check met the same entry before) its row is not stored yet; a
\* task that ends while it waits there leaves the ledger as it was, without
\* that row; and a check that completes has handed to post_update every
\* entry that was not among the rows it read.
C14_PostBeforeRecord ==
    /\ [](\A t \in TaskIds :
            tasks[t].pc = "write" =>
              /\ tasks[t].out # << >>
              /\ tasks[t].out[Len(tasks[t].out)].entry = Current(t)
              /\ ~Seen(tasks[t].updates, Current(t))
              /\ (FirstListing(t) => ~Seen(RowsOf(t), Current(t))))
    /\ [][\A t \in TaskIds :
            (tasks[t].pc = "write" /\ ~Pending(t)')
              => /\ entries' = entries
                 /\ (FirstListing(t) => Record(t) \notin entries')]_vars
    /\ [](\A t \in TaskIds :
            Checked(t) =>
              \A i \in 1..Len(tasks[t].feed.entries) :
                  Seen(tasks[t].updates, tasks[t].feed.entries[i])
                    \/ \E j \in 1..Len(tasks[t].out) :
                          tasks[t].out[j].entry = tasks[t].feed.entries[i])

\* an earlier task was cancelled in the middle of its check, with the row
\* of the older entry written and the row of the newer one not; the check
\* of a later task read that ledger, handed the newer entry to post_update
\* again and has completed
C14_Witness ==
    \E t \in TaskIds :
        /\ t > 1 /\ tasks[t - 1].state = "cancelled"
        /\ Checked(t) /\ tasks[t].prev = NoDoc
        /\ Cardinality(tasks[t].updates) = 1
        /\ Len(tasks[t].out) = 1
        /\ ~Seen(tasks[t].updates, tasks[t].out[1].entry)

\* C15: right after a stop that answered with the success reaction every
\* pending task has its cancellation requested, and the step that follows,
\* unless it is a start, posts nothing, writes no row and creates no task.
C15_StopCeases ==
    /\ [](reply = [cmd |-> "stop", msg |-> SUCCESS_EMOJI]
            => \A t \in Live : tasks[t].must_cancel)
    /\ [][(reply = [cmd |-> "stop", msg |-> SUCCESS_EMOJI] /\ reply'.cmd # "start")
            => /\ Len(tasks') = Len(tasks)
               /\ entries' = entries
               /\ \A t \in TaskIds : Len(tasks'[t].out) <= Len(tasks[t].out)]_vars

Keys(table) == {EntryKey(r) : r \in table}

C17_FailureSurfaced ==
    \A t \in TaskIds :
        tasks[t].state = "failed" => tasks[t].cb \in {"scheduled", "ran"}

\* C18: the row a check is about to store carries the name of the
\* registered feed, and a check of a document whose entries are those of
\* the channel's last completed check (no id with two updated values),
\* whatever its title has become, hands nothing to post_update.
C18_KeyIsFeedName ==
    \A t \in TaskIds :
        /\ tasks[t].pc = "write" => Record(t).feed_name = bot_feed(t).name
        /\ (/\ Checked(t)
            /\ tasks[t].prev # NoDoc
            /\ tasks[t].prev.entries = tasks[t].feed.entries
            /\ OneVersionPerId(tasks[t].feed))
             => tasks[t].out = << >>

Registered(f) == f \in Range(feeds)

\* the feeds of the list a task works on that are no longer in the table
Stale(t) == {f \in Range(tasks[t].loaded) : ~Registered(f)}

\* C19: a task enters the first feed of a cycle with a list whose feeds are
\* all in the feeds table at that moment; a feed of its list falls out of
\* the table only by a step that deletes it while the cycle is under way;
\* and a row is only ever stored for the channel of a feed of the list of a
\* task that is in a cycle.
C19_RemovedNotPolledAgain ==
    [][\A t \in TaskIds :
         /\ (tasks'[t].pc = "fetch" /\ tasks'[t].fi = 1 /\ tasks[t].pc # "fetch")
              => Range(tasks'[t].loaded) \subseteq Range(feeds)
         /\ tasks'[t].loaded = tasks[t].loaded
              => Stale(t)' \subseteq (Stale(t) \cup (Range(feeds) \ Range(feeds')))
         /\ \A r \in entries' \ entries :
              \E u \in TaskIds :
                  /\ tasks[u].pc = "write"
                  /\ r.channel_id = bot_feed(u).channel_id]_vars

\* a task hands an entry to post_update, or stores its row, for a feed that
\* was removed while the cycle was under way
C19_Witness ==
    \E t \in TaskIds :
        /\ tasks[t].pc \in {"write", "checked"}
        /\ tasks[t].out # << >>
        /\ ~Registered(bot_feed(t))
        /\ \A f \in Range(feeds) : f.channel_id # bot_feed(t).channel_id

\* the rows a check read that carry the channel of its feed
OwnRows(t) == {r \in tasks[t].updates : r.channel_id = bot_feed(t).channel_id}

\* C20: what a check hands to post_update is settled by the rows of its own
\* channel alone: an entry it is about to post or has just posted is not
\* among them, and a check that completes has posted exactly the entries
\* that are not among them, in the order of the loop.
C20_PerChannelLedger ==
    \A t \in TaskIds :
        /\ tasks[t].pc \in {"post", "write"} => ~Seen(OwnRows(t), Current(t))
        /\ Checked(t) => Posted(tasks[t]) = Unseen(tasks[t].feed, OwnRows(t))

\* two channels are registered for the same feed; the first channel's rows
\* for both entries are stored, and the second channel's check has handed
\* both entries to post_update all the same
C20_Witness ==
    \E t \in TaskIds :
        /\ Checked(t) /\ tasks[t].fi = 2
        /\ tasks[t].loaded[1].name = tasks[t].loaded[2].name
        /\ tasks[t].loaded[1].channel_id # tasks[t].loaded[2].channel_id
        /\ Cardinality(get_entries(entries, tasks[t].loaded[1].name,
                                   tasks[t].loaded[1].channel_id)) = 2
        /\ Len(tasks[t].out) = 2

====
